---- MODULE Spec2Model ----
(***************************************************************************)
(* A model of the circuit gadgets of th3nyst1c/taiga:                      *)
(*   - merkle_poseidon_gadget      (taiga_halo2 circuit/merkle_circuit.rs) *)
(*   - ComposeMerkleCheckQuantity and resource_commit                      *)
(*                            (taiga_halo2 circuit/resource_commitment.rs) *)
(*   - ValidityPredicateCircuit    (taiga_halo2 circuit/vp_circuit.rs)     *)
(*   - BalanceValidityPredicate    (src/circuit/vp_examples/balance.rs)    *)
(*   - BlindingCircuit             (src/circuit/blinding_circuit.rs)       *)
(*   - Blake2sChip                 (taiga_halo2 circuit/blake2s.rs)        *)
(*                                                                         *)
(* Field elements are naturals.  The Poseidon hash is a library primitive  *)
(* and is idealised as an injective function (collision-free), which is    *)
(* the assumption the statements about it are made under.                  *)
(***************************************************************************)
EXTENDS Integers, Sequences, FiniteSets, TLC

VARIABLES
    \* ---- merkle_poseidon_gadget: two successive calls of the gadget ----
    mcall,        \* the call that is running: 1, 2, or 3 when both returned
    note_x,       \* note_x[k]: the leaf given to call k
    merkle_path,  \* merkle_path[k]: the path given to call k
    cur,          \* cur[k]: the accumulated value of call k
    iter,         \* iter[k]: number of path entries call k has consumed
    hist,         \* hist[k]: the successive values of cur[k] (history)
    root,         \* root[k]: what call k returned (NoRoot before it returns)
    change,       \* how the input of call 2 differs from that of call 1
    tree          \* the 4 leaves the input was taken from, or <<>>

mvars == <<mcall, note_x, merkle_path, cur, iter, hist, root, change, tree>>

VARIABLES
    \* ---- resource_commit: two successive calls, then the gate check ----
    ccall,             \* 1, 2: the call that runs; 3: both returned;
                       \* 4: the compose gate was evaluated on the region
    res,               \* res[k]: the resource fields given to call k
    region,            \* the rows of "Compose is_merkle_checked and quantity"
    poseidon_message,  \* poseidon_message[k]: the message call k hashed
    commitment,        \* commitment[k]: what call k returned
    verdict            \* verdict[j]: whether row j satisfies the gate

cvars == <<ccall, res, region, poseidon_message, commitment, verdict>>

VARIABLES
    \* ---- one synthesis of a validity predicate circuit ----
    vp_pc,                  \* "synthesize", "basic", "basic_done", "custom_done"
    variant,                \* the VP variant: "default" or "balance"
    input_notes,            \* input_notes[i], i in 0..NUM_NOTE-1
    output_notes,           \* output_notes[i]
    i_note,                 \* the loop index i of basic_constraints
    input_note_variables,   \* the vector basic_constraints builds and returns
    output_note_variables,
    instance_constraints,   \* cells bound to positions of the instance column
    public_inputs,          \* the instance column the circuit is checked with
    custom_args,            \* what custom_constraints received, <<>> before
    custom_emitted,         \* the equalities custom_constraints asserted
    calls                   \* the constraint phases entered, in order

vvars == <<vp_pc, variant, input_notes, output_notes, i_note,
           input_note_variables, output_note_variables, instance_constraints,
           public_inputs, custom_args, custom_emitted, calls>>

VARIABLES
    \* ---- the end-to-end flow of test_balance_vp_example ----
    f_pc,       \* "compile", "prove", "verify", "done"
    f_notes,    \* the input notes; the output notes are the same notes
    f_pp,       \* the universal parameters PC::setup returned
    f_keys,     \* what compile returned: [pk, vk], <<>> before
    f_proved,   \* what gen_proof returned: [proof, pi], <<>> before
    f_given,    \* what verify_proof was given: [vk, proof, pi, label]
    f_altered,  \* which of these differs from the flow's own, <<"none", 0>>
    f_result    \* the Result of verify_proof: "none", "Ok", "Err"

fvars == <<f_pc, f_notes, f_pp, f_keys, f_proved, f_given, f_altered,
           f_result>>

VARIABLES
    \* ---- one BlindingCircuit::new, then verify on the value it built ----
    b_pc,            \* the next step of new; "built", "verified", "panicked"
    b_args,          \* [setup, gadget, private_inputs, public_inputs]
    b_fault,         \* the library call that returns Err, or "none"
    b_prover,        \* the Prover
    b_verifier,      \* the Verifier
    b_keys,          \* what trim returned: [ck, vk], <<>> before
    b_public_input,  \* the public input captured from the prover
    b_proof,         \* what prove returned, <<>> before
    b_self,          \* the BlindingCircuit new returned, <<>> if none
    b_log,           \* the library calls made so far, in order
    b_outcome        \* how verify ended: "none", "returned", "panicked"

bvars == <<b_pc, b_args, b_fault, b_prover, b_verifier, b_keys,
           b_public_input, b_proof, b_self, b_log, b_outcome>>

VARIABLES
    \* ---- one run of Blake2sChip::compression_function ----
    h_pc,                \* "schedule", "schedule_loop", "rounds", "finalize",
                         \* "done", "panicked"
    h_build,             \* how the build treats an overflowing shift
    h_state,             \* the argument state: 8 words
    h_message_block,     \* the argument message_block: 16 words
    h_schedule_vec,      \* the Vec message_schedule fills: up to 64 words
    h_message_schedule,  \* what message_schedule returned, <<>> before
    h_current_state,     \* current_state
    h_round,             \* the loop index round
    h_g_index,           \* the loop index g_index
    h_calls,             \* the calls of g made so far, in order
    h_final_state        \* what compression_function returned, <<>> before

hvars == <<h_pc, h_build, h_state, h_message_block, h_schedule_vec,
           h_message_schedule, h_current_state, h_round, h_g_index, h_calls,
           h_final_state>>

VARIABLES
    \* ---- one call of a helper of the Blake2s chip ----
    k_pc,      \* "call", "returned", "panicked"
    k_op,      \* "xor", "add", "rotate", "shift_right"
    k_arg,     \* the rotation of rotate, the shift of shift_right, else 0
    k_build,   \* how the build treats an overflowing shift
    k_cells,   \* the values of the cells: [x, y, result]
    k_copies   \* the equality constraints the helper emitted: cell pairs

kvars == <<k_pc, k_op, k_arg, k_build, k_cells, k_copies>>

vars == <<mvars, cvars, vvars, fvars, bvars, hvars, kvars>>

(***************************************************************************)
(* Bounds of the model.                                                    *)
(***************************************************************************)
\* Longest Merkle path the model feeds to the gadget.
MaxPathLen == 3

\* Largest leaf value (leaves are 0..MaxLeaf); siblings are 0 and 1.
MaxLeaf == 2

LeafValues == 0..MaxLeaf
SiblingValues == {0, 1}

\* The model's stand-in for 64 bits: the shift count of `1 << 64` and the
\* width of a quantity.  u128 is four times as wide, 2^128 is 2^(2*HalfBits).
HalfBits == 3

(***************************************************************************)
(* The tree depth constant (crate::constant), scaled to the model.         *)
(***************************************************************************)
TAIGA_COMMITMENT_TREE_DEPTH == 2

\* The number of input and of output notes of a transition (crate::constant).
NUM_NOTE == 2

NoRoot == 0 - 1

(***************************************************************************)
(* merkle_circuit.rs                                                       *)
(***************************************************************************)
\* PoseidonHash<P128Pow5T3, ConstantLength<2>>::hash([l, r]), idealised as
\* an injective pairing of two field elements: Hash2(l, r) determines l and
\* r, and it depends on their order unless they are equal.
Hash2(l, r) == ((l + r) * (l + r + 1)) \div 2 + r + 1

\* CondSwapChip::swap(pair, swap): (b, a) when swap is set, else (a, b).
CondSwap(pair, swap) == IF swap THEN <<pair[2], pair[1]>> ELSE pair

\* A swap helper that, when swapping, returns the sibling on both sides.
SwapDropsCur(pair, swap) == IF swap THEN <<pair[2], pair[2]>> ELSE pair

\* The gadget's inner helper swap(): delegates to the CondSwap chip.
Swap(pair, swap) == CondSwap(pair, swap)

\* An iteration that hashes [cur, sibling] whatever the swap returned.
MerkleLevelUnswapped(c, e) == Hash2(c, e[1])

\* One iteration of the loop over merkle_path: swap, then hash the pair.
MerkleLevel(c, e) ==
    LET pair == Swap(<<c, e[1]>>, e[2])
    IN  Hash2(pair[1], pair[2])

\* A loop that leaves the last entry of the path out.
LoopGuardShort(k) == iter[k] + 1 < Len(merkle_path[k])

\* The loop continues while an entry of the path is left.
LoopGuard(k) == iter[k] < Len(merkle_path[k])

\* `for e in merkle_path.iter() { ... cur = hash(swap(cur, e)) }`
MerkleLoop(k) ==
    /\ mcall = k
    /\ LoopGuard(k)
    /\ LET e == merkle_path[k][iter[k] + 1]
           n == MerkleLevel(cur[k], e)
       IN  /\ cur' = [cur EXCEPT ![k] = n]
           /\ hist' = [hist EXCEPT ![k] = Append(@, n)]
    /\ iter' = [iter EXCEPT ![k] = @ + 1]
    /\ UNCHANGED <<mcall, note_x, merkle_path, root, change, tree>>

\* `Ok(cur)`
MerkleReturn(k) ==
    /\ mcall = k
    /\ ~LoopGuard(k)
    /\ root' = [root EXCEPT ![k] = cur[k]]
    /\ mcall' = k + 1
    /\ UNCHANGED <<note_x, merkle_path, cur, iter, hist, change, tree>>

(***************************************************************************)
(* Native recomputation of the root (MerklePath::root) and the 4-leaf tree *)
(* of the white list test.                                                 *)
(***************************************************************************)
RECURSIVE NativeRoot(_, _)
NativeRoot(leaf, path) ==
    IF path = <<>> THEN leaf
    ELSE LET e == Head(path)
         IN  NativeRoot(IF e[2] THEN Hash2(e[1], leaf) ELSE Hash2(leaf, e[1]),
                        Tail(path))

\* MerkleTreeLeafs::new(leaves).root() for 4 leaves.
TreeRoot(t) == Hash2(Hash2(t[1], t[2]), Hash2(t[3], t[4]))

\* The authentication path of leaf number idx (0..3) of a 4-leaf tree, as
\* the white list test builds it for idx = 1:
\*   [(leaf 0, true), (hash of leaves 2 and 3, false)].
AuthPath(t, idx) ==
    LET sib  == IF idx % 2 = 0 THEN t[idx + 2] ELSE t[idx]
        pair == IF idx < 2 THEN Hash2(t[3], t[4]) ELSE Hash2(t[1], t[2])
    IN  <<  <<sib, idx % 2 = 1>>, <<pair, idx >= 2>>  >>

(***************************************************************************)
(* Inputs of the Merkle gadget.                                            *)
(***************************************************************************)
PathEntries == SiblingValues \X BOOLEAN

Paths == UNION {[1..n -> PathEntries] : n \in 0..MaxPathLen}

\* A sibling value other than v / a leaf value other than v.
OtherSiblings(v) == (SiblingValues \cup {v + 1}) \ {v}
OtherLeaves(v) == LeafValues \ {v}

\* The inputs that differ from (leaf, path) in exactly one thing.
Changed(leaf, path, ch) ==
    CASE ch.kind = "leaf" ->
           {<<l, path>> : l \in OtherLeaves(leaf)}
      [] ch.kind = "sibling" ->
           {<<leaf, [path EXCEPT ![ch.level] = <<s, @[2]>>]>> :
                s \in OtherSiblings(path[ch.level][1])}
      [] ch.kind = "bit" ->
           {<<leaf, [path EXCEPT ![ch.level] = <<@[1], ~@[2]>>]>>}

Changes(path) ==
    {[kind |-> "leaf", level |-> 0]}
    \cup {[kind |-> k, level |-> j] : k \in {"sibling", "bit"}, j \in 1..Len(path)}

MerkleInputs ==
    {<<l, p, <<>>>> : l \in LeafValues, p \in Paths}
    \cup {<<t[i + 1], AuthPath(t, i), t>> :
              t \in [1..4 -> SiblingValues], i \in 0..3}

InitMerkleCalls ==
    \E inp \in MerkleInputs :
      \E ch \in Changes(inp[2]) :
        \E alt \in Changed(inp[1], inp[2], ch) :
          /\ mcall = 1
          /\ note_x = <<inp[1], alt[1]>>
          /\ merkle_path = <<inp[2], alt[2]>>
          /\ cur = note_x
          /\ iter = <<0, 0>>
          /\ hist = <<  <<inp[1]>>, <<alt[1]>>  >>
          /\ root = <<NoRoot, NoRoot>>
          /\ change = ch
          /\ tree = inp[3]


(***************************************************************************)
(* resource_commitment.rs                                                  *)
(***************************************************************************)
\* The modulus of pallas::Base, scaled to the model: a prime just above a
\* power of two (2^14 here, 2^254 there), far above 2^(2*HalfBits).
BaseModulus == 16411

FAdd(a, b) == (a + b) % BaseModulus
FSub(a, b) == (a - b + BaseModulus) % BaseModulus
FMul(a, b) == (a * b) % BaseModulus

\* `1 << 64` on a u128, pallas::Base::from_u128 and Field::square.
Shl128(x, n) == (x * 2^n) % 2^(4 * HalfBits)
FromU128(x) == x % BaseModulus
Square(x) == FMul(x, x)

\* ResourceCommitChip::configure: `from_u128(1 << 64).square()`.
ConfigureTwoPow128 == Square(FromU128(Shl128(1, HalfBits)))

\* The constant without the squaring.
AssignTwoPow64 == FromU128(Shl128(1, HalfBits))

\* ComposeMerkleCheckQuantity::assign: `from_u128(1 << 64).square()`.
AssignTwoPow128 == Square(FromU128(Shl128(1, HalfBits)))

\* halo2_gadgets::utilities::bool_check: value * (1 - value).
BoolCheck(v) == FMul(v, FSub(1, v))

\* The polynomials of the gate "Compose is_merkle_checked and quantity" on
\* one row, each multiplied by the selector (Constraints::with_selector).
ComposeGate(row, two_pow_128) ==
    LET composition_check ==
            FSub(row.col_l, FAdd(row.col_r, FMul(row.col_m, two_pow_128)))
    IN  <<FMul(row.q_compose, BoolCheck(row.col_m)),
          FMul(row.q_compose, composition_check)>>

\* A row satisfies the gate when every polynomial evaluates to zero.
GateSatisfied(row) ==
    LET polys == ComposeGate(row, ConfigureTwoPow128)
    IN  \A i \in 1..Len(polys) : polys[i] = 0

\* A witness that adds the flag without the separation constant.
ComposeWitnessNoShift(is_merkle_checked, quantity) ==
    FAdd(quantity, is_merkle_checked)

\* The value `assign` witnesses:
\* quantity + is_merkle_checked * from_u128(1 << 64).square().
ComposeWitness(is_merkle_checked, quantity) ==
    FAdd(quantity, FMul(is_merkle_checked, AssignTwoPow128))

\* ComposeMerkleCheckQuantity::assign: the row it lays out (selector on,
\* compose in col_l, is_merkle_checked copied to col_m, quantity to col_r).
ComposeAssign(is_merkle_checked, quantity) ==
    [q_compose |-> 1,
     col_l |-> ComposeWitness(is_merkle_checked, quantity),
     col_m |-> is_merkle_checked,
     col_r |-> quantity]

\* A message that leaves the commitment randomizer out.
PoseidonMessageNoRcm(r, compose) ==
    <<r.app_vp, r.label, r.value, r.npk, r.nonce, r.psi, compose>>

\* resource_commit: the message handed to the Poseidon hash.
PoseidonMessage(r, compose) ==
    <<r.app_vp, r.label, r.value, r.npk, r.nonce, r.psi, compose, r.rcm>>

\* poseidon_hash_gadget, idealised as an injective function of the message.
PoseidonHash(message) == [poseidon |-> message]

NoCommitment == PoseidonHash(<<>>)

\* resource_commit(app_vp, ..., quantity, is_merkle_checked, rcm)
ResourceCommit(k) ==
    /\ ccall = k
    /\ k \in 1..2
    /\ LET row == ComposeAssign(res[k].is_merkle_checked, res[k].quantity)
           msg == PoseidonMessage(res[k], row.col_l)
       IN  /\ region' = Append(region, row)
           /\ poseidon_message' = [poseidon_message EXCEPT ![k] = msg]
           /\ commitment' = [commitment EXCEPT ![k] = PoseidonHash(msg)]
    /\ ccall' = k + 1
    /\ UNCHANGED <<res, verdict>>

\* The proof system's evaluation of the gate on every row of the region.
VerifyGate ==
    /\ ccall = 3
    /\ verdict' = [j \in 1..Len(region) |-> GateSatisfied(region[j])]
    /\ ccall' = 4
    /\ UNCHANGED <<res, region, poseidon_message, commitment>>

(***************************************************************************)
(* Inputs of the resource commitment.                                      *)
(***************************************************************************)
TwoPow64 == 2^HalfBits
TwoPow128 == 2^(2 * HalfBits)

\* Quantities: the whole 64-bit range, the first value beyond it, the
\* separation constant and the largest field element.
QuantityValues == (0..(TwoPow64 - 1)) \cup {TwoPow64, TwoPow128, BaseModulus - 1}

\* Flags: the two booleans and a non-boolean field element.
FlagValues == {0, 1, 2}

ResourceData ==
    {[app_vp |-> 1, label |-> 2, value |-> 3, npk |-> 4, nonce |-> 5, psi |-> 6],
     [app_vp |-> 6, label |-> 5, value |-> 4, npk |-> 3, nonce |-> 2, psi |-> 1]}

Resource(d, q, f, r) ==
    [app_vp |-> d.app_vp, label |-> d.label, value |-> d.value, npk |-> d.npk,
     nonce |-> d.nonce, psi |-> d.psi,
     quantity |-> q, is_merkle_checked |-> f, rcm |-> r]

\* Rows a prover may lay out by hand, whatever `assign` would compute.
GateRowFlags == FlagValues \cup {BaseModulus - 1}
GateRowQuantities == {0, 1, TwoPow64 - 1, TwoPow128, BaseModulus - TwoPow128,
                      BaseModulus - 1}
GateRowComposes ==
    {0, 1} \cup {FAdd(q, FMul(f, TwoPow128)) :
                     q \in GateRowQuantities, f \in GateRowFlags}

InitCommitCalls ==
    \E d1 \in ResourceData, d2 \in ResourceData :
      \E q1 \in QuantityValues, q2 \in QuantityValues :
        \E f1 \in FlagValues, f2 \in FlagValues :
          \E r2 \in {7, 8} :
            /\ ccall = 1
            /\ res = <<Resource(d1, q1, f1, 7), Resource(d2, q2, f2, r2)>>
            /\ region = <<>>
            /\ poseidon_message = <<  <<>>, <<>>  >>
            /\ commitment = <<NoCommitment, NoCommitment>>
            /\ verdict = <<>>

InitGateRows ==
    \E s \in {0, 1}, l \in GateRowComposes, m \in GateRowFlags,
       r \in GateRowQuantities :
        /\ ccall = 3
        /\ res = <<>>
        /\ region = <<[q_compose |-> s, col_l |-> l, col_m |-> m, col_r |-> r]>>
        /\ poseidon_message = <<  <<>>, <<>>  >>
        /\ commitment = <<NoCommitment, NoCommitment>>
        /\ verdict = <<>>

IdleCommit ==
    /\ ccall = 0
    /\ res = <<>>
    /\ region = <<>>
    /\ poseidon_message = <<>>
    /\ commitment = <<>>
    /\ verdict = <<>>

IdleMerkle ==
    /\ mcall = 0
    /\ note_x = <<>>
    /\ merkle_path = <<>>
    /\ cur = <<>>
    /\ iter = <<>>
    /\ hist = <<>>
    /\ root = <<>>
    /\ change = [kind |-> "none", level |-> 0]
    /\ tree = <<>>


(***************************************************************************)
(* vp_circuit.rs, vp_examples/balance.rs                                   *)
(***************************************************************************)
NoteIndex == 0..(NUM_NOTE - 1)

\* The nullifier and the commitment derived from a note (circuit::integrity),
\* idealised as injective functions of the note with disjoint ranges.
Nullifier(note) == 100 + 10 * note.rho + note.value
NoteCommitment(note) == 2000 + 10 * note.rho + note.value

\* check_spend_note(..., note, instance index): the spend note variable it
\* returns and the nullifier cell it binds to the instance column.
CheckSpendNote(note, idx) ==
    [var  |-> [kind |-> "spend", value |-> note.value, rho |-> note.rho,
               nf |-> Nullifier(note)],
     bind |-> [pos |-> idx, kind |-> "spend", cell |-> Nullifier(note)]]

\* check_output_note(..., note, old_nf, instance index): the output note
\* variable, whose nonce is the old_nf cell, and the commitment cell it
\* binds to the instance column.
CheckOutputNote(note, old_nf, idx) ==
    LET committed == [value |-> note.value, rho |-> old_nf]
    IN  [var  |-> [kind |-> "output", value |-> note.value, rho |-> old_nf,
                   cm |-> NoteCommitment(committed)],
         bind |-> [pos |-> idx, kind |-> "output",
                   cell |-> NoteCommitment(committed)]]

\* The instance index passed to check_spend_note: `i * 2`.
SpendInstanceIndex(i) == i * 2

\* An output index that is not interleaved with the spend indices.
OutputInstanceIndexDense(i) == i + 1

\* The instance index passed to check_output_note: `i * 2 + 1`.
OutputInstanceIndex(i) == i * 2 + 1

\* An old_nf taken from the input note at the same index.
OldNfFromInput(i) == Nullifier(input_notes[i])

\* `assign_free_advice(.., Value::known(output_notes[i].rho.inner()))`:
\* a free advice cell, equal to nothing but the value witnessed into it.
OldNf(i) == output_notes[i].rho

\* A push that puts the new variable in front.
PushFront(vec, v) == <<v>> \o vec

\* `input_note_variables.push(..)`, `output_note_variables.push(..)`.
Push(vec, v) == Append(vec, v)

\* One iteration of `for i in 0..NUM_NOTE` of basic_constraints.
BasicIteration ==
    /\ vp_pc = "basic"
    /\ i_note < NUM_NOTE
    /\ LET i == i_note
           spend == CheckSpendNote(input_notes[i], SpendInstanceIndex(i))
           old_nf == OldNf(i)
           out == CheckOutputNote(output_notes[i], old_nf, OutputInstanceIndex(i))
       IN  /\ input_note_variables' = Push(input_note_variables, spend.var)
           /\ output_note_variables' = Push(output_note_variables, out.var)
           /\ instance_constraints' =
                  instance_constraints \o <<spend.bind, out.bind>>
    /\ i_note' = i_note + 1
    /\ UNCHANGED <<vp_pc, variant, input_notes, output_notes, public_inputs,
                   custom_args, custom_emitted, calls>>

\* `Ok((input_note_variables, output_note_variables))`
BasicReturn ==
    /\ vp_pc = "basic"
    /\ i_note = NUM_NOTE
    /\ vp_pc' = "basic_done"
    /\ UNCHANGED <<variant, input_notes, output_notes, i_note,
                   input_note_variables, output_note_variables,
                   instance_constraints, public_inputs, custom_args,
                   custom_emitted, calls>>

\* A sum that keeps only the value of the last note variable.
BalanceSumLast(note_variables) ==
    IF note_variables = <<>> THEN 0
    ELSE note_variables[Len(note_variables)].value

\* field_addition_gadget folded over the note variables from zero_var.
RECURSIVE BalanceSum(_)
BalanceSum(note_variables) ==
    IF note_variables = <<>> THEN 0
    ELSE FAdd(BalanceSum(SubSeq(note_variables, 1, Len(note_variables) - 1)),
              note_variables[Len(note_variables)].value)

\* ValidityPredicateCircuit::custom_constraints (the default): nothing.
DefaultCustomConstraints(ins, outs) == <<>>

\* BalanceValidityPredicate::custom_constraints:
\* assert_equal(sum of input values, sum of output values).
BalanceCustomConstraints(ins, outs) ==
    <<[lhs |-> BalanceSum(ins), rhs |-> BalanceSum(outs)]>>

\* The synthesis of a VP (gadget_vp): first basic_constraints ...
SynthesizeBasic ==
    /\ vp_pc = "synthesize"
    /\ vp_pc' = "basic"
    /\ calls' = Append(calls, "basic_constraints")
    /\ UNCHANGED <<variant, input_notes, output_notes, i_note,
                   input_note_variables, output_note_variables,
                   instance_constraints, public_inputs, custom_args,
                   custom_emitted>>

\* ... then custom_constraints on the note variables it returned.
SynthesizeCustom ==
    /\ vp_pc = "basic_done"
    /\ custom_args' = <<input_note_variables, output_note_variables>>
    /\ custom_emitted' =
           IF variant = "balance"
           THEN BalanceCustomConstraints(input_note_variables,
                                         output_note_variables)
           ELSE DefaultCustomConstraints(input_note_variables,
                                         output_note_variables)
    /\ calls' = Append(calls, "custom_constraints")
    /\ vp_pc' = "custom_done"
    /\ UNCHANGED <<variant, input_notes, output_notes, i_note,
                   input_note_variables, output_note_variables,
                   instance_constraints, public_inputs>>

\* The instance constraints emitted so far hold for the public inputs.
BasicSatisfied ==
    \A j \in 1..Len(instance_constraints) :
      LET b == instance_constraints[j]
      IN  /\ b.pos + 1 \in 1..Len(public_inputs)
          /\ public_inputs[b.pos + 1] = b.cell

(***************************************************************************)
(* Inputs of a VP synthesis.                                               *)
(***************************************************************************)
InputNoteSets ==
    {[i \in NoteIndex |-> [value |-> v[i], rho |-> i + 1]] :
         v \in [NoteIndex -> {5, 7}]}

\* An output note's rho: the nullifier of an input note, or an old
\* nullifier that belongs to no input note of this transition.
ForeignNullifier == 99

OutputNoteSets(ins) ==
    [NoteIndex -> [value : {5, 6, 7},
                   rho : {Nullifier(ins[i]) : i \in NoteIndex}
                           \cup {ForeignNullifier}]]

\* The public inputs the notes call for: nullifier i at 2i, output
\* commitment i at 2i+1.
HonestPublicInputs(ins, outs) ==
    [p \in 1..(2 * NUM_NOTE) |->
        IF (p - 1) % 2 = 0 THEN Nullifier(ins[(p - 1) \div 2])
        ELSE NoteCommitment(outs[(p - 1) \div 2])]

\* The honest public inputs, or those with one position altered.
PublicInputSets(ins, outs) ==
    LET h == HonestPublicInputs(ins, outs)
    IN  {h} \cup {[h EXCEPT ![p] = @ + 1] : p \in 1..(2 * NUM_NOTE)}

InitVpSynthesis ==
    \E ins \in InputNoteSets :
      \E outs \in OutputNoteSets(ins) :
        \E pub \in PublicInputSets(ins, outs) :
          \E v \in {"default", "balance"} :
            /\ vp_pc = "synthesize"
            /\ variant = v
            /\ input_notes = ins
            /\ output_notes = outs
            /\ i_note = 0
            /\ input_note_variables = <<>>
            /\ output_note_variables = <<>>
            /\ instance_constraints = <<>>
            /\ public_inputs = pub
            /\ custom_args = <<>>
            /\ custom_emitted = <<>>
            /\ calls = <<>>

IdleVp ==
    /\ vp_pc = "idle"
    /\ variant = "none"
    /\ input_notes = <<>>
    /\ output_notes = <<>>
    /\ i_note = 0
    /\ input_note_variables = <<>>
    /\ output_note_variables = <<>>
    /\ instance_constraints = <<>>
    /\ public_inputs = <<>>
    /\ custom_args = <<>>
    /\ custom_emitted = <<>>
    /\ calls = <<>>

(***************************************************************************)
(* The proving system (plonk_core), a library: idealised.  A verifying key *)
(* is a function of the circuit's structure and the parameters; a proof    *)
(* binds the transcript (label, verifying key, public input) and opens the *)
(* witness polynomials, correctly exactly when the witness satisfies the   *)
(* circuit.                                                                *)
(***************************************************************************)
PlonkCompile(structure, pp) ==
    [pk |-> [structure |-> structure, pp |-> pp],
     vk |-> [structure |-> structure, pp |-> pp]]

PlonkTranscript(label, vk, pi) == [label |-> label, vk |-> vk, pi |-> pi]

\* The proving key carries the verifying key's data.
PlonkProve(pk, satisfied, pi, label) ==
    [challenge |-> PlonkTranscript(label, pk, pi),
     opening   |-> IF satisfied THEN "correct" ELSE "incorrect"]

PlonkVerify(vk, proof, pi, label) ==
    IF /\ proof.challenge = PlonkTranscript(label, vk, pi)
       /\ proof.opening = "correct"
    THEN "Ok" ELSE "Err"

(***************************************************************************)
(* test_balance_vp_example: compile, gen_proof, verify_proof.              *)
(***************************************************************************)
\* `padded_circuit_size`: 1 << 17.
PaddedCircuitSize == 17

\* The structure of the balance VP circuit: it does not depend on the notes.
BalanceStructure == [vp |-> "balance", log_size |-> PaddedCircuitSize]

\* The label gen_proof is given: b"Test".
ProveLabel == "Test"

\* A label that differs from the prover's.
VerifyLabelOther == "test"

\* The label verify_proof is given: b"Test".
VerifyLabel == "Test"

\* `let output_notes = input_notes; // for a right balance`
FlowOutputNotes(notes) == notes

\* The note variables the VP circuit is synthesized on.
FlowVariables(notes) == [j \in 1..NUM_NOTE |-> [value |-> notes[j - 1].value]]

\* The witness satisfies the balance VP's custom constraints.
FlowSatisfied(notes) ==
    LET emitted == BalanceCustomConstraints(
                       FlowVariables(notes),
                       FlowVariables(FlowOutputNotes(notes)))
    IN  \A j \in 1..Len(emitted) : emitted[j].lhs = emitted[j].rhs

\* `balance_vp.compile::<PC>(&pp)`
FlowCompile ==
    /\ f_pc = "compile"
    /\ f_keys' = PlonkCompile(BalanceStructure, f_pp)
    /\ f_pc' = "prove"
    /\ UNCHANGED <<f_notes, f_pp, f_proved, f_given, f_altered, f_result>>

\* `balance_vp.gen_proof::<PC>(&pp, pk_p, b"Test")`
FlowGenProof ==
    /\ f_pc = "prove"
    /\ LET pi == HonestPublicInputs(f_notes, FlowOutputNotes(f_notes))
       IN  f_proved' = [proof |-> PlonkProve(f_keys.pk, FlowSatisfied(f_notes),
                                             pi, ProveLabel),
                        pi    |-> pi]
    /\ f_pc' = "verify"
    /\ UNCHANGED <<f_notes, f_pp, f_keys, f_given, f_altered, f_result>>

\* The labels, parameters and opening a verification can be given instead of
\* the flow's own.
OtherLabels == {"test", "Tes", ""}
SetupParams == 1..3
OtherOpenings == {"incorrect"}

\* The ways in which what verify_proof is given can differ.
Alterations ==
    {<<"none", 0>>}
      \cup {<<"pi", p>> : p \in 1..(2 * NUM_NOTE)}
      \cup {<<"label", l>> : l \in OtherLabels}
      \cup {<<"proof", o>> : o \in OtherOpenings \cup OtherLabels}
      \cup {<<"vk", pp>> : pp \in SetupParams}

\* What verify_proof is given when one argument is altered.
Given(how) ==
    LET own == [vk    |-> f_keys.vk,
                proof |-> f_proved.proof,
                pi    |-> f_proved.pi,
                label |-> VerifyLabel]
    IN  CASE how[1] = "none"  -> own
          [] how[1] = "pi"    -> [own EXCEPT !.pi[how[2]] = @ + 1]
          [] how[1] = "label" -> [own EXCEPT !.label = how[2]]
          [] how[1] = "proof" ->
               IF how[2] \in OtherOpenings
               THEN [own EXCEPT !.proof.opening = how[2]]
               ELSE [own EXCEPT !.proof.challenge.label = how[2]]
          [] how[1] = "vk"    -> [own EXCEPT !.vk.pp = how[2]]

\* `verify_proof::<Fr, P, PC>(&pp, verifier_data.key, &proof,
\*                            &verifier_data.pi, b"Test")`
FlowVerify ==
    /\ f_pc = "verify"
    /\ \E how \in Alterations :
         LET g == Given(how)
         IN  /\ g = Given(<<"none", 0>>) => how = <<"none", 0>>
             /\ f_given' = g
             /\ f_altered' = how
             /\ f_result' = PlonkVerify(g.vk, g.proof, g.pi, g.label)
    /\ f_pc' = "done"
    /\ UNCHANGED <<f_notes, f_pp, f_keys, f_proved>>

InitFlowTest ==
    /\ f_pc = "compile"
    /\ f_notes \in InputNoteSets
    /\ f_pp \in SetupParams
    /\ f_keys = <<>>
    /\ f_proved = <<>>
    /\ f_given = <<>>
    /\ f_altered = <<"none", 0>>
    /\ f_result = "none"

IdleFlow ==
    /\ f_pc = "idle"
    /\ f_notes = <<>>
    /\ f_pp = 0
    /\ f_keys = <<>>
    /\ f_proved = <<>>
    /\ f_given = <<>>
    /\ f_altered = <<"none", 0>>
    /\ f_result = "none"

(***************************************************************************)
(* BlindingCircuit (src/circuit/blinding_circuit.rs).  Prover and Verifier *)
(* are library objects (plonk_core::proof_system), idealised as above.     *)
(***************************************************************************)
\* The gadgets `new` can be given (any fn of this type): one that verifies
\* the inner VP proof held in the private inputs against the inner
\* verifying key and public input, one that constrains nothing.
Gadgets == {"verify_inner", "unconstrained"}

\* The number of gates a gadget adds (it does not depend on the values).
GadgetGates(gadget) == IF gadget = "verify_inner" THEN 5 ELSE 2

\* The valid inner proof for an inner verifying key and public input.
InnerProof(vk, pi) == 10 * vk + pi

\* private_inputs = <<inner proof, inner vk>>, public_inputs = <<inner pi>>.
InnerValid(priv_inputs, pub_inputs) ==
    priv_inputs[1] = InnerProof(priv_inputs[2], pub_inputs[1])

\* `gadget(cs, private_inputs, public_inputs)`: the constraint system after.
WireGadget(gadget, priv_inputs, pub_inputs) ==
    [gadget  |-> gadget,
     gates   |-> GadgetGates(gadget),
     witness |-> priv_inputs,
     pi      |-> pub_inputs]

\* The witness of a constraint system satisfies its constraints.
CsSatisfied(cs) ==
    cs.gadget = "verify_inner" => InnerValid(cs.witness, cs.pi)

\* `Prover::new(b"demo")`
ProverLabel == "demo"

\* A verifier label that differs from the prover's.
VerifierLabelOther == "verifier"

\* `Verifier::new(b"demo")`
VerifierLabel == "demo"

\* `key_transcript(b"key", b"additional seed information")`
KeyTranscript == <<"key", "additional seed information">>

\* Prover / Verifier after new, key_transcript and the gadget.
Wired(label, gadget, priv_inputs, pub_inputs) ==
    [label |-> label,
     seed  |-> KeyTranscript,
     cs    |-> WireGadget(gadget, priv_inputs, pub_inputs),
     key   |-> <<>>]

\* `usize::next_power_of_two`
RECURSIVE NextPowerOfTwoFrom(_, _)
NextPowerOfTwoFrom(n, p) == IF p >= n THEN p ELSE NextPowerOfTwoFrom(n, 2 * p)

NextPowerOfTwo(n) == NextPowerOfTwoFrom(n, 1)

\* A bound computed from the circuit bound of a prover nothing is wired into.
TrimBoundBeforeWiring(prover) == NextPowerOfTwo(0) + 6

\* `prover.circuit_bound().next_power_of_two() + 6`
TrimBound(prover) == NextPowerOfTwo(prover.cs.gates) + 6

\* `trim(setup, bound, 0, None)`: Err when the bound exceeds the parameters.
Trim(setup, bound) ==
    IF bound > setup THEN [ok |-> FALSE]
    ELSE [ok |-> TRUE,
          ck |-> [setup |-> setup, bound |-> bound],
          vk |-> [setup |-> setup, bound |-> bound]]

\* A library call whose failure goes unnoticed.
FailedNever(call) == FALSE

\* `.unwrap()` on the Result of a library call: it panics on Err.
Failed(call) == b_fault = call

\* `preprocess(ck)`: the key of the circuit's structure under ck.
Preprocessed(obj, ck) ==
    [obj EXCEPT !.key = [gadget |-> obj.cs.gadget, gates |-> obj.cs.gates,
                         ck |-> ck]]

\* `prover.prove(&ck)`
ProverProve(prover, ck) ==
    [challenge |-> [label |-> prover.label, seed |-> prover.seed,
                    key |-> prover.key, pi |-> prover.cs.pi],
     opening   |-> IF CsSatisfied(prover.cs) THEN "correct" ELSE "incorrect"]

\* `verifier.verify(&proof, &vk, &public_input)`
VerifierVerify(verifier, proof, vk, public_input) ==
    IF /\ proof.challenge = [label |-> verifier.label, seed |-> verifier.seed,
                             key |-> verifier.key, pi |-> public_input]
       /\ proof.opening = "correct"
       /\ vk = verifier.key.ck
    THEN "Ok" ELSE "Err"

\* precompute_prover, lines 54-56.
PrecomputeProver ==
    /\ b_pc = "precompute_prover"
    /\ b_prover' = Wired(ProverLabel, b_args.gadget, b_args.private_inputs,
                         b_args.public_inputs)
    /\ b_log' = b_log \o <<"Prover::new", "prover.key_transcript",
                            "gadget(prover)">>
    /\ b_pc' = "trim"
    /\ UNCHANGED <<b_args, b_fault, b_verifier, b_keys, b_public_input,
                   b_proof, b_self, b_outcome>>

\* precompute_prover, lines 57-66.
PrecomputeProverTrim ==
    /\ b_pc = "trim"
    /\ LET keys == Trim(b_args.setup, TrimBound(b_prover))
       IN  IF ~keys.ok
           THEN /\ b_pc' = "panicked"
                /\ b_log' = Append(b_log, "trim")
                /\ UNCHANGED <<b_keys, b_public_input>>
           ELSE /\ b_pc' = "precompute_verifier"
                /\ b_log' = b_log \o <<"trim", "get_pi">>
                /\ b_keys' = keys
                /\ b_public_input' = b_prover.cs.pi
    /\ UNCHANGED <<b_args, b_fault, b_prover, b_verifier, b_proof, b_self,
                   b_outcome>>

\* precompute_verifier.
PrecomputeVerifier ==
    /\ b_pc = "precompute_verifier"
    /\ b_verifier' = Wired(VerifierLabel, b_args.gadget, b_args.private_inputs,
                           b_args.public_inputs)
    /\ b_log' = b_log \o <<"Verifier::new", "verifier.key_transcript",
                            "gadget(verifier)">>
    /\ b_pc' = "preprocess"
    /\ UNCHANGED <<b_args, b_fault, b_prover, b_keys, b_public_input, b_proof,
                   b_self, b_outcome>>

\* preprocess: the prover, then the verifier, each unwrapped.
Preprocess ==
    /\ b_pc = "preprocess"
    /\ IF Failed("prover.preprocess")
       THEN /\ b_pc' = "panicked"
            /\ b_log' = Append(b_log, "prover.preprocess")
            /\ UNCHANGED <<b_prover, b_verifier>>
       ELSE IF Failed("verifier.preprocess")
       THEN /\ b_pc' = "panicked"
            /\ b_log' = b_log \o <<"prover.preprocess", "verifier.preprocess">>
            /\ b_prover' = Preprocessed(b_prover, b_keys.ck)
            /\ UNCHANGED b_verifier
       ELSE /\ b_pc' = "prove"
            /\ b_log' = b_log \o <<"prover.preprocess", "verifier.preprocess">>
            /\ b_prover' = Preprocessed(b_prover, b_keys.ck)
            /\ b_verifier' = Preprocessed(b_verifier, b_keys.ck)
    /\ UNCHANGED <<b_args, b_fault, b_keys, b_public_input, b_proof, b_self,
                   b_outcome>>

\* new, lines 118-125: prove, then the value is built.
ProveAndBuild ==
    /\ b_pc = "prove"
    /\ b_log' = Append(b_log, "prover.prove")
    /\ IF Failed("prover.prove")
       THEN /\ b_pc' = "panicked"
            /\ UNCHANGED <<b_proof, b_self>>
       ELSE LET proof == ProverProve(b_prover, b_keys.ck)
            IN  /\ b_pc' = "built"
                /\ b_proof' = proof
                /\ b_self' = [public_input |-> b_public_input,
                              proof        |-> proof,
                              verifier     |-> b_verifier,
                              vk           |-> b_keys.vk]
    /\ UNCHANGED <<b_args, b_fault, b_prover, b_verifier, b_keys,
                   b_public_input, b_outcome>>

\* verify(&self): the Result of the check is unwrapped.
BlindingVerify ==
    /\ b_pc = "built"
    /\ b_log' = Append(b_log, "verifier.verify")
    /\ b_outcome' =
           IF VerifierVerify(b_self.verifier, b_self.proof, b_self.vk,
                             b_self.public_input) = "Ok"
           THEN "returned" ELSE "panicked"
    /\ b_pc' = "verified"
    /\ UNCHANGED <<b_args, b_fault, b_prover, b_verifier, b_keys,
                   b_public_input, b_proof, b_self>>

\* The inputs of new and the library calls that can fail.
SetupSizes == {8, 16}
InnerVks == {1, 2}
InnerPis == {3, 4}
InnerProofs == {InnerProof(vk, pi) : vk \in InnerVks, pi \in InnerPis}
PrivateInputSets == {<<proof, vk>> : proof \in InnerProofs, vk \in InnerVks}
PublicInputVectors == {<<pi>> : pi \in InnerPis}
Faults == {"none", "prover.preprocess", "verifier.preprocess", "prover.prove"}

InitBlindingNew ==
    /\ b_pc = "precompute_prover"
    /\ b_args \in [setup : SetupSizes, gadget : Gadgets,
                    private_inputs : PrivateInputSets,
                    public_inputs : PublicInputVectors]
    /\ b_fault \in Faults
    /\ b_prover = <<>>
    /\ b_verifier = <<>>
    /\ b_keys = <<>>
    /\ b_public_input = <<>>
    /\ b_proof = <<>>
    /\ b_self = <<>>
    /\ b_log = <<>>
    /\ b_outcome = "none"

IdleBlinding ==
    /\ b_pc = "idle"
    /\ b_args = <<>>
    /\ b_fault = "none"
    /\ b_prover = <<>>
    /\ b_verifier = <<>>
    /\ b_keys = <<>>
    /\ b_public_input = <<>>
    /\ b_proof = <<>>
    /\ b_self = <<>>
    /\ b_log = <<>>
    /\ b_outcome = "none"

(***************************************************************************)
(* Blake2sChip (taiga_halo2 circuit/blake2s.rs): the values the chip       *)
(* witnesses.  Cells hold elements of pallas::Base (scaled, BaseModulus).  *)
(***************************************************************************)
\* `pallas::Base::NUM_BITS`
NUM_BITS == 255

\* The width of u64, the type of `1u64 << ..`.
U64Bits == 64

\* b^e modulo m, by squaring.
RECURSIVE PowMod(_, _, _)
PowMod(b, e, m) ==
    IF e = 0 THEN 1 % m
    ELSE LET half == PowMod(b, e \div 2, m)
             sq   == (half * half) % m
         IN  IF e % 2 = 1 THEN (sq * b) % m ELSE sq

\* `x.invert().unwrap_or(zero)`
FInv(x) == IF x % BaseModulus = 0 THEN 0 ELSE PowMod(x, BaseModulus - 2, BaseModulus)

\* `rotation as u64 % m`: a negative i32 is sign-extended to 2^64 + rotation.
RotationAsU64Mod(rotation, m) ==
    IF rotation >= 0 THEN rotation % m
    ELSE (PowMod(2, U64Bits, m) + m - ((0 - rotation) % m)) % m

\* The shift count of `1u64 << (rotation as u64 % NUM_BITS as u64)`.
ShiftCount(rotation) == RotationAsU64Mod(rotation, NUM_BITS)

\* A shift of a u64 by its width or more overflows: with overflow checks
\* the program panics, without them the count is taken modulo the width.
Builds == {"overflow_checks", "wrapping"}

ShlOverflows(count) == count >= U64Bits

RotatePanics(rotation, build) ==
    build = "overflow_checks" /\ ShlOverflows(ShiftCount(rotation))

\* `pallas::Base::from(1u64 << count)` where the shift does not panic.
Pow2(rotation) == PowMod(2, ShiftCount(rotation) % U64Bits, BaseModulus)

\* xor: the value `x + y - x * y`.
Xor(x, y) == FSub(FAdd(x, y), FMul(x, y))

\* add: the value `x + y`.
Add(x, y) == FAdd(x, y)

\* rotate: the value `v * pow_2`.
Rotate(v, rotation) == FMul(v, Pow2(rotation))

\* shift_right: the value `v * (1u64 << shift)^-1`.
ShiftRight(v, shift) == FMul(v, FInv(PowMod(2, shift, BaseModulus)))

\* The rotations g and message_schedule ask for.
GRotations == {0 - 16, 0 - 12, 0 - 8, 0 - 7}
ScheduleRotations == {0 - 7, 0 - 18, 0 - 17, 0 - 19}

\* A g that returns words 0..3 of its state in the places of words 4..7.
GUpperFromLower(state, message) ==
    <<state[1], state[2], state[3], state[4],
      state[1], state[2], state[3], state[4]>>

\* g: the words it returns (state[i] of the source is state[i + 1]).
G(state, message) ==
    LET a1 == Add(state[1], state[5])
        a2 == Add(a1, message[1])
        d1 == Xor(state[4], a2)
        d2 == Rotate(d1, 0 - 16)
        c1 == Add(state[3], d2)
        b1 == Xor(state[2], c1)
        b2 == Rotate(b1, 0 - 12)
        a3 == Add(a2, b2)
        a4 == Add(a3, message[2])
        d3 == Xor(d2, a4)
        d4 == Rotate(d3, 0 - 8)
        c2 == Add(c1, d4)
        b3 == Xor(b2, c2)
        b4 == Rotate(b3, 0 - 7)
    IN  <<a4, b4, c2, d4, state[5], state[6], state[7], state[8]>>

\* message_schedule: word i (16 <= i < 64) from the words before it
\* (message_schedule[j] of the source is ms[j + 1]).
ScheduleWord(ms, i) ==
    LET s0a == Xor(Rotate(ms[i - 15 + 1], 0 - 7), Rotate(ms[i - 15 + 1], 0 - 18))
        s0  == Xor(s0a, ShiftRight(ms[i - 15 + 1], 3))
        s1a == Xor(Rotate(ms[i - 2 + 1], 0 - 17), Rotate(ms[i - 2 + 1], 0 - 19))
        s1  == Xor(s1a, ShiftRight(ms[i - 2 + 1], 10))
        sum == Add(ms[i - 16 + 1], s0)
        new_word == Add(sum, ms[i - 7 + 1])
    IN  Add(new_word, s1)

\* message_schedule: `Vec::with_capacity(64)`, `for i in 16..64`.
ScheduleWords == 64

\* `const SIGMA: [[u8; 16]; 10]` (SIGMA[r][j] of the source is
\* SIGMA[r + 1][j + 1]).
SIGMA ==
    <<<<0, 1, 2, 3, 4, 5, 6, 7, 8, 9, 10, 11, 12, 13, 14, 15>>,
      <<14, 10, 4, 8, 9, 15, 13, 6, 1, 12, 0, 2, 11, 7, 5, 3>>,
      <<11, 8, 12, 0, 5, 2, 15, 13, 10, 14, 3, 6, 7, 1, 9, 4>>,
      <<7, 9, 3, 1, 13, 12, 11, 14, 2, 6, 5, 10, 4, 0, 15, 8>>,
      <<9, 0, 5, 7, 2, 4, 10, 15, 14, 1, 11, 12, 6, 8, 3, 13>>,
      <<2, 12, 6, 10, 0, 11, 8, 3, 4, 13, 7, 5, 15, 14, 1, 9>>,
      <<12, 5, 1, 15, 14, 13, 4, 10, 0, 7, 6, 3, 9, 2, 8, 11>>,
      <<13, 11, 7, 14, 12, 1, 3, 9, 5, 0, 15, 4, 8, 6, 2, 10>>,
      <<6, 15, 14, 9, 11, 3, 0, 8, 12, 2, 13, 7, 1, 4, 10, 5>>,
      <<10, 2, 8, 4, 7, 6, 1, 5, 15, 11, 9, 14, 3, 12, 13, 0>>>>

\* `for round in 0..10`, `for g_index in 0..8`.
Rounds == 10
GIndices == 8

\* `SIGMA[round][j]`
SigmaIndex(round, j) == SIGMA[round + 1][j + 1]

\* A return of the last 16 words of the Vec.
ScheduleReturnedLast(vec) == SubSeq(vec, Len(vec) - 15, Len(vec))

\* message_schedule, lines 329-346: `message_schedule[0]` ..
\* `message_schedule[15]` are returned.
ScheduleReturned(vec) == SubSeq(vec, 1, 16)

\* message_schedule, lines 227-232: the 16 words of the block are copied.
ScheduleCopy ==
    /\ h_pc = "schedule"
    /\ h_schedule_vec' = h_message_block
    /\ h_pc' = "schedule_loop"
    /\ UNCHANGED <<h_build, h_state, h_message_block, h_message_schedule,
                   h_current_state, h_round, h_g_index, h_calls,
                   h_final_state>>

\* message_schedule, lines 238-322: one iteration of `for i in 16..64`.
ScheduleIteration ==
    /\ h_pc = "schedule_loop"
    /\ Len(h_schedule_vec) < ScheduleWords
    /\ IF \E r \in ScheduleRotations : RotatePanics(r, h_build)
       THEN /\ h_pc' = "panicked"
            /\ UNCHANGED h_schedule_vec
       ELSE /\ h_schedule_vec' =
                   Append(h_schedule_vec,
                          ScheduleWord(h_schedule_vec, Len(h_schedule_vec)))
            /\ UNCHANGED h_pc
    /\ UNCHANGED <<h_build, h_state, h_message_block, h_message_schedule,
                   h_current_state, h_round, h_g_index, h_calls,
                   h_final_state>>

\* message_schedule, lines 329-346: the first 16 words are returned;
\* compression_function, line 359: `current_state = state.clone()`.
ScheduleReturn ==
    /\ h_pc = "schedule_loop"
    /\ Len(h_schedule_vec) = ScheduleWords
    /\ h_message_schedule' = ScheduleReturned(h_schedule_vec)
    /\ h_current_state' = h_state
    /\ h_pc' = "rounds"
    /\ UNCHANGED <<h_build, h_state, h_message_block, h_schedule_vec, h_round,
                   h_g_index, h_calls, h_final_state>>

\* compression_function, lines 360-375: one iteration of the inner loop.
CompressionG ==
    /\ h_pc = "rounds"
    /\ h_round < Rounds
    /\ LET idx  == SigmaIndex(h_round, 2 * h_g_index)
           idx1 == SigmaIndex(h_round, 2 * h_g_index + 1)
           message == <<h_message_schedule[idx + 1],
                        h_message_schedule[idx1 + 1]>>
           call == [round |-> h_round, g_index |-> h_g_index,
                    state |-> h_current_state, message |-> message]
       IN  IF \E r \in GRotations : RotatePanics(r, h_build)
           THEN /\ h_pc' = "panicked"
                /\ h_calls' = Append(h_calls, call)
                /\ UNCHANGED <<h_current_state, h_round, h_g_index>>
           ELSE /\ h_current_state' = G(h_current_state, message)
                /\ h_calls' = Append(h_calls, call)
                /\ h_g_index' = (h_g_index + 1) % GIndices
                /\ h_round' = IF h_g_index + 1 = GIndices
                              THEN h_round + 1 ELSE h_round
                /\ h_pc' = IF h_g_index + 1 = GIndices /\ h_round + 1 = Rounds
                           THEN "finalize" ELSE "rounds"
    /\ UNCHANGED <<h_build, h_state, h_message_block, h_schedule_vec,
                   h_message_schedule, h_final_state>>

\* compression_function, lines 378-404: the final state.
CompressionFinalize ==
    /\ h_pc = "finalize"
    /\ h_final_state' = [i \in 1..8 |-> Add(h_state[i], h_current_state[i])]
    /\ h_pc' = "done"
    /\ UNCHANGED <<h_build, h_state, h_message_block, h_schedule_vec,
                   h_message_schedule, h_current_state, h_round, h_g_index,
                   h_calls>>

\* The arguments of compression_function: words in the 32-bit range.
MaxWord == 3
StateSets ==
    {[i \in 1..8 |-> 0], [i \in 1..8 |-> IF i = 1 THEN 1 ELSE 0]}
      \cup {[i \in 1..8 |-> (i + k) % (MaxWord + 1)] : k \in 0..MaxWord}
MessageBlockSets ==
    {[i \in 1..16 |-> 0]}
      \cup {[i \in 1..16 |-> (i * k) % (MaxWord + 1)] : k \in 1..MaxWord}

InitCompression ==
    /\ h_pc = "schedule"
    /\ h_build \in Builds
    /\ h_state \in StateSets
    /\ h_message_block \in MessageBlockSets
    /\ h_schedule_vec = <<>>
    /\ h_message_schedule = <<>>
    /\ h_current_state = <<>>
    /\ h_round = 0
    /\ h_g_index = 0
    /\ h_calls = <<>>
    /\ h_final_state = <<>>

IdleBlake2s ==
    /\ h_pc = "idle"
    /\ h_build = "none"
    /\ h_state = <<>>
    /\ h_message_block = <<>>
    /\ h_schedule_vec = <<>>
    /\ h_message_schedule = <<>>
    /\ h_current_state = <<>>
    /\ h_round = 0
    /\ h_g_index = 0
    /\ h_calls = <<>>
    /\ h_final_state = <<>>

(***************************************************************************)
(* The helpers of the Blake2s chip, one call: the result cell they assign  *)
(* and the equality constraints they emit.  A helper with one input cell   *)
(* reads it as x.                                                          *)
(***************************************************************************)
\* xor, add: `constrain_equal(x.cell(), result_cell.cell())`,
\*           `constrain_equal(y.cell(), result_cell.cell())`.
BinaryCopies == <<<<"x", "result">>, <<"y", "result">>>>

\* rotate, shift_right: `constrain_equal(cell.cell(), rotated_cell.cell())`.
UnaryCopies == <<<<"x", "result">>>>

HelperReturns(value, copies) ==
    /\ k_cells' = [k_cells EXCEPT !.result = value]
    /\ k_copies' = copies
    /\ k_pc' = "returned"
    /\ UNCHANGED <<k_op, k_arg, k_build>>

HelperXor ==
    /\ k_pc = "call"
    /\ k_op = "xor"
    /\ HelperReturns(Xor(k_cells.x, k_cells.y), BinaryCopies)

HelperAdd ==
    /\ k_pc = "call"
    /\ k_op = "add"
    /\ HelperReturns(Add(k_cells.x, k_cells.y), BinaryCopies)

HelperRotate ==
    /\ k_pc = "call"
    /\ k_op = "rotate"
    /\ IF RotatePanics(k_arg, k_build)
       THEN /\ k_pc' = "panicked"
            /\ UNCHANGED <<k_op, k_arg, k_build, k_cells, k_copies>>
       ELSE HelperReturns(Rotate(k_cells.x, k_arg), UnaryCopies)

HelperShiftRight ==
    /\ k_pc = "call"
    /\ k_op = "shift_right"
    /\ HelperReturns(ShiftRight(k_cells.x, k_arg), UnaryCopies)

\* The shifts message_schedule asks for.
ScheduleShifts == {3, 10}

\* The calls of the helpers: cell values in the 32-bit range, and the
\* rotations and shifts the chip passes.
HelperCalls ==
    [op : {"xor", "add"}, x : 0..MaxWord, y : 0..MaxWord, arg : {0}]
      \cup [op : {"rotate"}, x : 0..MaxWord, y : {0},
             arg : GRotations \cup ScheduleRotations]
      \cup [op : {"shift_right"}, x : 0..MaxWord, y : {0},
             arg : ScheduleShifts]

InitHelperCall ==
    \E call \in HelperCalls :
      /\ k_pc = "call"
      /\ k_op = call.op
      /\ k_arg = call.arg
      /\ k_build \in Builds
      /\ k_cells = [x |-> call.x, y |-> call.y, result |-> 0]
      /\ k_copies = <<>>

IdleHelper ==
    /\ k_pc = "idle"
    /\ k_op = "none"
    /\ k_arg = 0
    /\ k_build = "none"
    /\ k_cells = <<>>
    /\ k_copies = <<>>

(***************************************************************************)
(* Specifications: one per component, the other components idle.           *)
(***************************************************************************)
InitMerkle ==
    InitMerkleCalls /\ IdleCommit /\ IdleVp /\ IdleFlow /\ IdleBlinding
    /\ IdleBlake2s /\ IdleHelper

NextMerkle ==
    \E k \in 1..2 :
      \/ MerkleLoop(k) /\ UNCHANGED <<cvars, vvars, fvars, bvars, hvars, kvars>>
      \/ MerkleReturn(k) /\ UNCHANGED <<cvars, vvars, fvars, bvars, hvars, kvars>>

SpecMerkle == InitMerkle /\ [][NextMerkle]_vars

InitCommit ==
    (InitCommitCalls \/ InitGateRows) /\ IdleMerkle /\ IdleVp /\ IdleFlow /\ IdleBlinding
    /\ IdleBlake2s /\ IdleHelper

NextCommit ==
    \/ \E k \in 1..2 :
         ResourceCommit(k) /\ UNCHANGED <<mvars, vvars, fvars, bvars, hvars, kvars>>
    \/ VerifyGate /\ UNCHANGED <<mvars, vvars, fvars, bvars, hvars, kvars>>

SpecCommit == InitCommit /\ [][NextCommit]_vars

InitVp ==
    InitVpSynthesis /\ IdleMerkle /\ IdleCommit /\ IdleFlow /\ IdleBlinding
    /\ IdleBlake2s /\ IdleHelper

NextVp ==
    \/ SynthesizeBasic /\ UNCHANGED <<mvars, cvars, fvars, bvars, hvars, kvars>>
    \/ BasicIteration /\ UNCHANGED <<mvars, cvars, fvars, bvars, hvars, kvars>>
    \/ BasicReturn /\ UNCHANGED <<mvars, cvars, fvars, bvars, hvars, kvars>>
    \/ SynthesizeCustom /\ UNCHANGED <<mvars, cvars, fvars, bvars, hvars, kvars>>

SpecVp == InitVp /\ [][NextVp]_vars

InitFlow ==
    InitFlowTest /\ IdleMerkle /\ IdleCommit /\ IdleVp /\ IdleBlinding
    /\ IdleBlake2s /\ IdleHelper

NextFlow ==
    \/ FlowCompile /\ UNCHANGED <<mvars, cvars, vvars, bvars, hvars, kvars>>
    \/ FlowGenProof /\ UNCHANGED <<mvars, cvars, vvars, bvars, hvars, kvars>>
    \/ FlowVerify /\ UNCHANGED <<mvars, cvars, vvars, bvars, hvars, kvars>>

SpecFlow == InitFlow /\ [][NextFlow]_vars

InitBlinding ==
    InitBlindingNew /\ IdleMerkle /\ IdleCommit /\ IdleVp /\ IdleFlow
    /\ IdleBlake2s /\ IdleHelper

NextBlinding ==
    \/ PrecomputeProver /\ UNCHANGED <<mvars, cvars, vvars, fvars, hvars, kvars>>
    \/ PrecomputeProverTrim /\ UNCHANGED <<mvars, cvars, vvars, fvars, hvars, kvars>>
    \/ PrecomputeVerifier /\ UNCHANGED <<mvars, cvars, vvars, fvars, hvars, kvars>>
    \/ Preprocess /\ UNCHANGED <<mvars, cvars, vvars, fvars, hvars, kvars>>
    \/ ProveAndBuild /\ UNCHANGED <<mvars, cvars, vvars, fvars, hvars, kvars>>
    \/ BlindingVerify /\ UNCHANGED <<mvars, cvars, vvars, fvars, hvars, kvars>>

SpecBlinding == InitBlinding /\ [][NextBlinding]_vars

InitBlake2s ==
    /\ InitCompression
    /\ IdleMerkle /\ IdleCommit /\ IdleVp /\ IdleFlow /\ IdleBlinding
    /\ IdleHelper

NextBlake2s ==
    \/ ScheduleCopy /\ UNCHANGED <<mvars, cvars, vvars, fvars, bvars, kvars>>
    \/ ScheduleIteration /\ UNCHANGED <<mvars, cvars, vvars, fvars, bvars, kvars>>
    \/ ScheduleReturn /\ UNCHANGED <<mvars, cvars, vvars, fvars, bvars, kvars>>
    \/ CompressionG /\ UNCHANGED <<mvars, cvars, vvars, fvars, bvars, kvars>>
    \/ CompressionFinalize /\ UNCHANGED <<mvars, cvars, vvars, fvars, bvars, kvars>>

SpecBlake2s == InitBlake2s /\ [][NextBlake2s]_vars

InitHelper ==
    /\ InitHelperCall
    /\ IdleMerkle /\ IdleCommit /\ IdleVp /\ IdleFlow /\ IdleBlinding
    /\ IdleBlake2s

NextHelper ==
    \/ HelperXor /\ UNCHANGED <<mvars, cvars, vvars, fvars, bvars, hvars>>
    \/ HelperAdd /\ UNCHANGED <<mvars, cvars, vvars, fvars, bvars, hvars>>
    \/ HelperRotate /\ UNCHANGED <<mvars, cvars, vvars, fvars, bvars, hvars>>
    \/ HelperShiftRight
         /\ UNCHANGED <<mvars, cvars, vvars, fvars, bvars, hvars>>

SpecHelper == InitHelper /\ [][NextHelper]_vars

(***************************************************************************)
(* Claims about the Merkle membership gadget.                              *)
(***************************************************************************)
Returned(k) == mcall > k

\* C1: the gadget returns the fold of the path from the leaf: level j turns
\* the accumulated value c into H(c, sibling) when the direction bit is
\* false and into H(sibling, c) when it is true; the returned value is the
\* natively recomputed root and, for the authentication path of a leaf of a
\* 4-leaf tree, the root of that tree.
C1_GadgetFoldsPath ==
    \A k \in 1..2 :
      /\ \A j \in 1..iter[k] :
           LET e == merkle_path[k][j]
               c == hist[k][j]
           IN  hist[k][j + 1] = IF e[2] THEN Hash2(e[1], c) ELSE Hash2(c, e[1])
      /\ Returned(k) => root[k] = NativeRoot(note_x[k], merkle_path[k])
      /\ (k = 1 /\ Returned(k) /\ tree # <<>>) => root[k] = TreeRoot(tree)

\* C1 witness: the gadget returned the root of a 4-leaf tree from the path
\* of the white list test (leaf 1: first level swapped, second level not).
C1_Witness ==
    /\ Returned(1)
    /\ tree # <<>>
    /\ merkle_path[1][1][2] = TRUE
    /\ merkle_path[1][2][2] = FALSE
    /\ root[1] = TreeRoot(tree)

\* The level at which call 2's direction bit was flipped holds a sibling
\* equal to the value accumulated so far.
FlipOfEqualPair ==
    /\ change.kind = "bit"
    /\ merkle_path[1][change.level][1] = hist[1][change.level]

\* C2 (as stated): changing exactly one thing of the input (the leaf, one
\* sibling or one direction bit) always changes the reconstructed root.
C2_Original == mcall = 3 => root[1] # root[2]

\* C2 (amended): changing the leaf or one sibling always changes the root;
\* flipping the direction bit of a level changes the root exactly when that
\* level's sibling differs from the value accumulated so far.
C2_SingleChangeChangesRoot ==
    mcall = 3 => (root[1] = root[2] <=> FlipOfEqualPair)

\* C2 witness: both calls returned, the second with one direction bit above
\* the first level flipped where sibling and accumulated value are equal.
C2_Witness ==
    /\ mcall = 3
    /\ change.kind = "bit"
    /\ change.level >= 2
    /\ root[1] = root[2]

\* C3 (as stated): every path the gadget folds has the length of the tree
\* depth constant, and the gadget produces no root for any other length.
C3_Original ==
    \A k \in 1..2 :
      Returned(k) =>
        /\ Len(merkle_path[k]) = TAIGA_COMMITMENT_TREE_DEPTH
        /\ iter[k] = TAIGA_COMMITMENT_TREE_DEPTH

\* C3 (amended): the gadget performs exactly one swap-and-hash level per
\* entry of the path it is given, whatever its length, and for the empty
\* path it returns the leaf itself.
C3_OneLevelPerEntry ==
    \A k \in 1..2 :
      Returned(k) =>
        /\ iter[k] = Len(merkle_path[k])
        /\ Len(hist[k]) = Len(merkle_path[k]) + 1
        /\ merkle_path[k] = <<>> => root[k] = note_x[k]

\* C3 witness: the gadget returned for a path longer than the tree depth
\* constant, having hashed once per entry.
C3_Witness ==
    /\ Returned(1)
    /\ Len(merkle_path[1]) > TAIGA_COMMITMENT_TREE_DEPTH
    /\ iter[1] = Len(merkle_path[1])

(***************************************************************************)
(* Claims about the resource commitment gadget.                            *)
(***************************************************************************)
Committed(k) == res # <<>> /\ ccall > k
GateChecked == ccall = 4
IsBool(v) == v \in {0, 1}
Pair(k) == <<res[k].is_merkle_checked, res[k].quantity>>

\* C4: with its selector on, the compose gate is satisfied exactly by the
\* rows with is_merkle_checked in {0,1} and
\* compose = quantity + is_merkle_checked * 2^128 in the field; and the row
\* that assign lays out satisfies the gate for every quantity and every
\* boolean is_merkle_checked, its constant being configure's two_pow_128.
C4_ComposeGate ==
    GateChecked =>
      /\ AssignTwoPow128 = ConfigureTwoPow128
      /\ \A j \in 1..Len(region) :
           region[j].q_compose = 1 =>
             (verdict[j] <=>
                /\ IsBool(region[j].col_m)
                /\ region[j].col_l =
                     (region[j].col_r + region[j].col_m * TwoPow128) % BaseModulus)
      /\ \A k \in 1..2 :
           (res # <<>> /\ IsBool(res[k].is_merkle_checked)) =>
             /\ region[k].col_m = res[k].is_merkle_checked
             /\ region[k].col_r = res[k].quantity
             /\ verdict[k]

\* C4 witness: the gate accepted a row that assign laid out for a set flag
\* and a non-zero quantity.
C4_Witness ==
    /\ GateChecked
    /\ res # <<>>
    /\ res[1].is_merkle_checked = 1
    /\ res[1].quantity > 0
    /\ verdict[1]

\* C5 (as stated): the constraints resource_commit emits bound the quantity
\* strictly below 2^128, so two different (is_merkle_checked, quantity)
\* pairs that satisfy them never compose to the same field element.
C5_QuantityRangeChecked ==
    (GateChecked /\ res # <<>>) =>
      /\ \A k \in 1..2 : verdict[k] => res[k].quantity < TwoPow128
      /\ (verdict[1] /\ verdict[2] /\ Pair(1) # Pair(2)) =>
             region[1].col_l # region[2].col_l

\* A quantity in the 64-bit range with a boolean flag.
InRange(k) == IsBool(res[k].is_merkle_checked) /\ res[k].quantity < TwoPow64

\* C6: for a boolean flag and a quantity in [0, 2^64) the composed value is
\* quantity + flag * 2^128 without wrapping around the modulus, the quantity
\* stays below the flag's bit, both components are recovered from the
\* composed value, and the map is injective.
C6_ComposeInjective ==
    /\ \A k \in 1..2 :
         (Committed(k) /\ InRange(k)) =>
           LET c == region[k].col_l
           IN  /\ c = res[k].quantity + res[k].is_merkle_checked * TwoPow128
               /\ c < BaseModulus
               /\ c \div TwoPow128 = res[k].is_merkle_checked
               /\ c % TwoPow128 = res[k].quantity
    /\ (Committed(2) /\ InRange(1) /\ InRange(2)
          /\ region[1].col_l = region[2].col_l) => Pair(1) = Pair(2)

\* C6 witness: two in-range inputs with equal quantities and different
\* flags were composed, the quantity being the largest of the range.
C6_Witness ==
    /\ Committed(2)
    /\ InRange(1) /\ InRange(2)
    /\ res[1].quantity = TwoPow64 - 1
    /\ res[2].quantity = res[1].quantity
    /\ res[1].is_merkle_checked = 1
    /\ res[2].is_merkle_checked = 0

\* Two resources that differ in rcm and in nothing else.
DifferOnlyInRcm ==
    /\ res[1].rcm # res[2].rcm
    /\ [res[1] EXCEPT !.rcm = res[2].rcm] = res[2]

\* C7: the commitment is the hash of the ordered message [app_vp, label,
\* value, npk, nonce, psi, compose(is_merkle_checked, quantity), rcm];
\* committing the same fields with the same rcm twice gives the same
\* commitment, and two resources that differ only in rcm give different
\* messages and different commitments.
C7_CommitDeterministicHiding ==
    /\ \A k \in 1..2 :
         Committed(k) =>
           /\ poseidon_message[k] =
                <<res[k].app_vp, res[k].label, res[k].value, res[k].npk,
                  res[k].nonce, res[k].psi, region[k].col_l, res[k].rcm>>
           /\ commitment[k] = PoseidonHash(poseidon_message[k])
    /\ Committed(2) =>
         /\ res[1] = res[2] => commitment[1] = commitment[2]
         /\ DifferOnlyInRcm =>
              /\ poseidon_message[1] # poseidon_message[2]
              /\ commitment[1] # commitment[2]

\* C7 witness: two resources that differ only in rcm were committed.
C7_Witness == Committed(2) /\ DifferOnlyInRcm

(***************************************************************************)
(* Claims about the validity predicate circuit.                            *)
(***************************************************************************)
BasicDone == vp_pc \in {"basic_done", "custom_done"}

\* The layout of the instance column: which note's cell sits where.
InstanceLayout ==
    {<<instance_constraints[j].pos, instance_constraints[j].kind>> :
         j \in 1..Len(instance_constraints)}

\* C8: basic_constraints binds input note i to public-input position 2*i
\* and output note i to position 2*i+1; the positions are pairwise distinct,
\* cover exactly 0..2*NUM_NOTE-1 and depend on the note index alone.
C8_PublicInputLayout ==
    /\ \A i \in NoteIndex :
         i < i_note =>
           /\ instance_constraints[2 * i + 1] =
                [pos |-> 2 * i, kind |-> "spend",
                 cell |-> input_note_variables[i + 1].nf]
           /\ instance_constraints[2 * i + 2] =
                [pos |-> 2 * i + 1, kind |-> "output",
                 cell |-> output_note_variables[i + 1].cm]
    /\ BasicDone =>
         /\ Len(instance_constraints) = 2 * NUM_NOTE
         /\ \A a, b \in 1..Len(instance_constraints) :
              a # b => instance_constraints[a].pos # instance_constraints[b].pos
         /\ {instance_constraints[j].pos : j \in 1..Len(instance_constraints)}
              = 0..(2 * NUM_NOTE - 1)
         /\ InstanceLayout =
              {<<2 * i, "spend">> : i \in NoteIndex}
                \cup {<<2 * i + 1, "output">> : i \in NoteIndex}

\* C8 witness: basic_constraints returned for notes with different values,
\* and the honest public inputs satisfy the instance constraints.
C8_Witness ==
    /\ BasicDone
    /\ input_notes[0].value # input_notes[1].value
    /\ BasicSatisfied

\* Output note i's rho is the nullifier of an input note of the transition.
RhoFromInputs(i) ==
    \E j \in NoteIndex : output_notes[i].rho = Nullifier(input_notes[j])

\* C9 (as stated): a witness in which output_notes[i].rho differs from
\* every input note's nullifier does not satisfy the basic constraints.
C9_Original ==
    (BasicDone /\ BasicSatisfied) => \A i \in NoteIndex : RhoFromInputs(i)

\* C9 (amended): old_nf is a free advice cell holding output_notes[i].rho;
\* it is the nonce of output note i's variable and commitment, and it is not
\* constrained to equal any input note's nullifier: with the public inputs
\* the notes call for, the basic constraints are satisfied whatever rho is.
C9_OldNfFreeAdvice ==
    /\ \A i \in NoteIndex :
         i < i_note =>
           /\ output_note_variables[i + 1].rho = output_notes[i].rho
           /\ output_note_variables[i + 1].cm = NoteCommitment(output_notes[i])
    /\ BasicDone =>
         (BasicSatisfied <=>
            public_inputs = HonestPublicInputs(input_notes, output_notes))

\* C9 witness: the basic constraints are satisfied by a witness none of
\* whose output notes takes its rho from an input note's nullifier.
C9_Witness ==
    /\ BasicDone
    /\ BasicSatisfied
    /\ \A i \in NoteIndex : ~RhoFromInputs(i)

BalanceDone == vp_pc = "custom_done" /\ variant = "balance"

\* Every equality custom_constraints asserted holds.
CustomSatisfied ==
    \A j \in 1..Len(custom_emitted) :
      custom_emitted[j].lhs = custom_emitted[j].rhs

\* The sum in the field of the values of notes[0..n-1].
RECURSIVE NoteValueSum(_, _)
NoteValueSum(notes, n) ==
    IF n = 0 THEN 0
    ELSE (NoteValueSum(notes, n - 1) + notes[n - 1].value) % BaseModulus

NoteValues(notes) == [i \in 1..NUM_NOTE |-> notes[i - 1].value]

Reversed(seq) == [j \in 1..Len(seq) |-> seq[Len(seq) + 1 - j]]

FlowDone == f_pc = "done"

Unaltered == f_altered = <<"none", 0>>

\* C12: after compiling the balance VP and proving with the proving key and
\* a transcript label, verification with the verifying key of the same
\* compilation, the returned public input and the same label succeeds, and
\* it fails when the public input, the proof or the label differs.
C12_FlowVerifies ==
    FlowDone =>
      /\ Unaltered =>
           /\ f_given.vk = f_keys.vk
           /\ f_given.proof = f_proved.proof
           /\ f_given.pi = f_proved.pi
           /\ f_given.label = ProveLabel
           /\ f_result = "Ok"
      /\ f_altered[1] \in {"pi", "proof", "label"} => f_result = "Err"

\* C12 witness: the flow ran to the end with what compile and gen_proof
\* returned, and verify_proof returned Ok.
C12_Witness ==
    /\ FlowDone
    /\ Unaltered
    /\ f_result = "Ok"
    /\ f_notes[0].value # f_notes[1].value

(***************************************************************************)
(* Claims about the blinding circuit.                                      *)
(***************************************************************************)
VerifierBuilt == b_verifier # <<>>

Built == b_self # <<>>

VerifyRan == b_pc = "verified"

\* C13: the verifier that new builds via precompute_verifier is constructed
\* from the proof, the verifying key and the public input only: two
\* constructions that differ only in the private inputs give the verifier
\* the same inputs, so its constraint system is the same whatever the
\* private inputs are.
C13_VerifierNeedsNoWitness ==
    VerifierBuilt =>
      \A w \in PrivateInputSets :
        b_verifier.cs = WireGadget(b_args.gadget, w, b_args.public_inputs)

\* C14: for a BlindingCircuit built by new, verify() succeeds if and only
\* if the inner VP proof it wraps is valid against its own verifying key
\* and public input.
C14_VerifyIffInnerValid ==
    VerifyRan =>
      (b_outcome = "returned"
         <=> InnerValid(b_args.private_inputs, b_args.public_inputs))

\* C15: verify() reports the outcome of the check to its caller as a
\* returned value, a failed check included: it never aborts.
C15_VerifyReturnsFailure ==
    VerifyRan => b_outcome = "returned"

Occurrences(log, call) == Cardinality({j \in 1..Len(log) : log[j] = call})

\* C16: construction is atomic.  When trimming (bound above the universal
\* parameters), a preprocessing or proving fails, new yields no
\* BlindingCircuit; a BlindingCircuit that exists holds the proof of a
\* completed prove call with the vk and the public input of the same
\* construction; no call is made a second time.
C16_ConstructionAtomic ==
    /\ b_pc = "panicked" => ~Built
    /\ Built =>
         /\ b_fault = "none"
         /\ TrimBound(b_prover) <= b_args.setup
         /\ Occurrences(b_log, "prover.prove") = 1
         /\ b_self.proof = ProverProve(b_prover, b_keys.ck)
         /\ b_self.vk = Trim(b_args.setup, TrimBound(b_prover)).vk
         /\ b_self.public_input = b_args.public_inputs
    /\ \A j \in 1..Len(b_log) : Occurrences(b_log, b_log[j]) = 1

\* C16 witness: prove failed after both preprocessings, and no
\* BlindingCircuit exists.
C16_Witness ==
    /\ b_pc = "panicked"
    /\ b_fault = "prover.prove"
    /\ Occurrences(b_log, "prover.prove") = 1
    /\ ~Built

\* C17: in every BlindingCircuit new produced the verifier's circuit
\* description is the prover's: same transcript label, same key-transcript
\* seed, same gadget on the same private and public inputs, both
\* preprocessed with the same committer key, so that the key the verifier
\* checks against is the key of the circuit the proof was made for.
C17_SameDescription ==
    /\ VerifierBuilt =>
         /\ b_verifier.label = b_prover.label
         /\ b_verifier.seed = b_prover.seed
         /\ b_verifier.cs = b_prover.cs
    /\ Built =>
         /\ b_self.verifier.label = b_prover.label
         /\ b_self.verifier.seed = b_prover.seed
         /\ b_self.verifier.cs = b_prover.cs
         /\ b_self.verifier.key.ck = b_keys.ck
         /\ b_prover.key.ck = b_keys.ck
         /\ b_self.verifier.key = b_prover.key
         /\ b_self.proof.challenge.key = b_self.verifier.key

\* C17 witness: a BlindingCircuit was built around the gadget that verifies
\* the inner proof.
C17_Witness ==
    /\ Built
    /\ b_args.gadget = "verify_inner"
    /\ b_self.verifier.key # <<>>

\* The calls of new, in the order of the source.
NewOrder ==
    <<"Prover::new", "prover.key_transcript", "gadget(prover)",
      "trim", "get_pi",
      "Verifier::new", "verifier.key_transcript", "gadget(verifier)",
      "prover.preprocess", "verifier.preprocess",
      "prover.prove">>

IsPrefix(a, b) == Len(a) <= Len(b) /\ a = SubSeq(b, 1, Len(a))

\* C18: new makes its calls in this order: the prover is created and the
\* gadget wired into it; the keys are trimmed with a bound computed from the
\* prover's circuit bound after wiring, and the public input is captured;
\* the verifier is built; the prover, then the verifier are preprocessed
\* with the trimmed committer key; only then the proof is produced.  verify
\* runs only on a value for which the proof was produced.
C18_StepsInOrder ==
    /\ IsPrefix(b_log, NewOrder \o <<"verifier.verify">>)
    /\ b_keys # <<>> =>
         /\ b_keys.ck.bound = NextPowerOfTwo(GadgetGates(b_args.gadget)) + 6
         /\ b_public_input = b_args.public_inputs
    /\ Built =>
         /\ IsPrefix(NewOrder, b_log)
         /\ b_prover.key.ck = b_keys.ck
         /\ b_self.verifier.key.ck = b_keys.ck
    /\ (b_outcome # "none" \/ Occurrences(b_log, "verifier.verify") > 0) =>
         /\ Built
         /\ b_log = NewOrder \o <<"verifier.verify">>

\* C18 witness: new ran to the end and verify returned on its value.
C18_Witness ==
    /\ VerifyRan
    /\ b_outcome = "returned"
    /\ Len(b_log) = Len(NewOrder) + 1

(***************************************************************************)
(* Claims about the Blake2s chip.                                          *)
(***************************************************************************)
\* Words of the reference: 32 bits, held as <<high half, low half>>.
HalfWord == 2 ^ 16

ToWord(n) == <<(n \div HalfWord) % HalfWord, n % HalfWord>>

\* The field element of a word (`Base::from(word)`).
WordInField(w) == ((w[1] * (HalfWord % BaseModulus)) + w[2]) % BaseModulus

\* Bitwise exclusive or of two naturals below 2^n.
RECURSIVE XorBits(_, _, _)
XorBits(a, b, n) ==
    IF n = 0 THEN 0
    ELSE ((a + b) % 2) + 2 * XorBits(a \div 2, b \div 2, n - 1)

RefXor(x, y) == <<XorBits(x[1], y[1], 16), XorBits(x[2], y[2], 16)>>

\* Addition modulo 2^32.
RefAdd(x, y) ==
    LET lo == x[2] + y[2]
    IN  <<(x[1] + y[1] + (lo \div HalfWord)) % HalfWord, lo % HalfWord>>

\* Rotation to the right by n bits, 0 < n <= 16.
RefRotr(x, n) ==
    LET low  == 2 ^ n
        high == 2 ^ (16 - n)
    IN  IF n = 16 THEN <<x[2], x[1]>>
        ELSE <<(x[1] \div low) + (x[2] % low) * high,
               (x[2] \div low) + (x[1] % low) * high>>

\* The mixing function G of Blake2s (RFC 7693, 3.1) on words a, b, c, d
\* with message words x, y.
RefG(a, b, c, d, x, y) ==
    LET a1 == RefAdd(RefAdd(a, b), x)
        d1 == RefRotr(RefXor(d, a1), 16)
        c1 == RefAdd(c, d1)
        b1 == RefRotr(RefXor(b, c1), 12)
        a2 == RefAdd(RefAdd(a1, b1), y)
        d2 == RefRotr(RefXor(d1, a2), 8)
        c2 == RefAdd(c1, d2)
        b2 == RefRotr(RefXor(b1, c2), 7)
    IN  <<a2, b2, c2, d2>>

\* A call of g returned.
GReturned == h_calls # <<>> /\ h_pc # "panicked"

\* C19: the words a call of g returns as a, b, c, d are those of the
\* reference mixing function (addition modulo 2^32, exclusive or, rotation
\* to the right by 16, 12, 8 and 7) on the words it was given, for the
\* words of either position the source reads b from.
C19_GMatchesReference ==
    GReturned =>
      LET call == h_calls[Len(h_calls)]
          st   == call.state
      IN  \E b \in {st[2], st[5]} :
            LET ref == RefG(ToWord(st[1]), ToWord(b), ToWord(st[3]),
                            ToWord(st[4]), ToWord(call.message[1]),
                            ToWord(call.message[2]))
            IN  \A k \in 1..4 : h_current_state[k] = WordInField(ref[k])

\* The n-th call of g (n from 1): round (n-1) div 8, g_index (n-1) mod 8,
\* with the message words at SIGMA[round][2*g_index] and
\* SIGMA[round][2*g_index + 1].
ExpectedCall(n, call) ==
    LET r == (n - 1) \div 8
        g == (n - 1) % 8
    IN  /\ call.round = r
        /\ call.g_index = g
        /\ call.message =
             <<h_message_schedule[SIGMA[r + 1][2 * g + 1] + 1],
               h_message_schedule[SIGMA[r + 1][2 * g + 2] + 1]>>

\* The calls of g made so far are the first calls of the 10 rounds of 8, in
\* round order then g_index order; after the loops there are exactly 80;
\* SIGMA has 10 rows, each a permutation of 0..15.
CompressionStructure ==
    /\ Len(h_calls) <= 80
    /\ \A n \in 1..Len(h_calls) : ExpectedCall(n, h_calls[n])
    /\ h_pc \in {"finalize", "done"} => Len(h_calls) = 80
    /\ Len(SIGMA) = 10
    /\ \A r \in 1..Len(SIGMA) :
         /\ Len(SIGMA[r]) = 16
         /\ {SIGMA[r][j] : j \in 1..16} = 0..15

\* C20: compression_function runs exactly 10 rounds of 8 calls of g each,
\* in round order then g_index order (it does not stop before); call
\* g_index of round r receives the message words at SIGMA[r][2*g_index] and
\* SIGMA[r][2*g_index+1]; each row of SIGMA is a permutation of 0..15.
C20_EightyGCalls ==
    /\ h_pc # "panicked"
    /\ CompressionStructure

(***************************************************************************)
(* Claims about the helpers of the Blake2s chip.                           *)
(***************************************************************************)
HelperReturned == k_pc = "returned"

\* The cell values satisfy every equality constraint the helper emitted.
CopiesSatisfied ==
    \A j \in 1..Len(k_copies) :
      k_cells[k_copies[j][1]] = k_cells[k_copies[j][2]]

\* C21: for arbitrary input cell values the equality constraints that add,
\* xor, rotate and shift_right emit are satisfied by the input cells
\* together with the result the helper assigns.
C21_HelperCopiesSatisfied ==
    HelperReturned => CopiesSatisfied

\* C22: for bits x and y the value xor assigns to its result cell is the
\* exclusive or of x and y: 0 for equal inputs, 1 for different inputs.
C22_XorOfBits ==
    (HelperReturned /\ k_op = "xor"
       /\ k_cells.x \in {0, 1} /\ k_cells.y \in {0, 1}) =>
      k_cells.result = IF k_cells.x = k_cells.y THEN 0 ELSE 1

\* C23: for every rotation the chip passes to rotate the shift count
\* (rotation as u64) % 255 is below 64, so that `1 << count` does not
\* overflow (rotate does not panic) and the multiplier is 2^count.
C23_ShiftCountBelow64 ==
    k_op = "rotate" =>
      /\ ShiftCount(k_arg) < 64
      /\ k_pc # "panicked"
      /\ HelperReturned =>
           k_cells.result =
             (k_cells.x * PowMod(2, ShiftCount(k_arg), BaseModulus))
               % BaseModulus

(***************************************************************************)
(* Claims about the state and the message words of compression_function.   *)
(***************************************************************************)
CompressionDone == h_pc = "done"

\* C24: every call of g returns words 4..7 of the state it was given
\* unchanged; after all 80 calls words 4..7 of the working state are those
\* of the initial state, and the final state has
\* final_state[i] = state[i] + state[i] for i in 4..7, whatever the message
\* block is.
C24_UpperWordsUnchanged ==
    /\ GReturned =>
         \A i \in 5..8 :
           /\ h_current_state[i] = h_calls[Len(h_calls)].state[i]
           /\ h_current_state[i] = h_state[i]
    /\ CompressionDone =>
         /\ Len(h_calls) = 80
         /\ \A i \in 5..8 :
              /\ h_current_state[i] = h_state[i]
              /\ h_final_state[i] = (h_state[i] + h_state[i]) % BaseModulus

\* C24 witness: compression_function returned for a state with distinct
\* non-zero words among words 4..7 and a non-zero message block, and g
\* changed words 0..3.
C24_Witness ==
    /\ CompressionDone
    /\ \E i, j \in 5..8 : h_state[i] # 0 /\ h_state[j] # 0 /\ h_state[i] # h_state[j]
    /\ \E j \in 1..16 : h_message_block[j] # 0
    /\ \E i \in 1..4 : h_current_state[i] # h_state[i]

\* The message words of the block at the SIGMA indices of call n.
BlockWords(n) ==
    LET r == (n - 1) \div 8
        g == (n - 1) % 8
    IN  <<h_message_block[SIGMA[r + 1][2 * g + 1] + 1],
          h_message_block[SIGMA[r + 1][2 * g + 2] + 1]>>

\* C25: the 16 words message_schedule returns are the 16 words of the
\* message block in their order, the calls of g take their message words
\* from them, and the output of compression_function is determined by the
\* state and these 16 words: none of the 48 derived words enters a call of
\* g or the final state.
C25_ScheduleIsBlock ==
    /\ h_message_schedule # <<>> => h_message_schedule = h_message_block
    /\ GReturned =>
         LET n    == Len(h_calls)
             call == h_calls[n]
         IN  /\ call.message = BlockWords(n)
             /\ call.state = IF n = 1 THEN h_state
                             ELSE G(h_calls[n - 1].state, BlockWords(n - 1))
             /\ h_current_state = G(call.state, BlockWords(n))
    /\ CompressionDone =>
         h_final_state =
           [i \in 1..8 |-> (h_state[i] + h_current_state[i]) % BaseModulus]

\* C25 witness: compression_function returned for a message block whose
\* derived words differ from the words of the block.
C25_Witness ==
    /\ CompressionDone
    /\ Len(h_schedule_vec) = 64
    /\ SubSeq(h_schedule_vec, 49, 64) # h_message_block
    /\ h_message_schedule = h_message_block

====
